---- MODULE Spec2Model ----
(***************************************************************************)
(* The disk-backed cache of free-proxy-list-speed-checker                  *)
(* (src/internal/cache/cache.go): backing files named by the hash of the   *)
(* key, a root index kept in memory and in root.index.bin, the facade      *)
(* operations Set/Get/SetList/GetList/GetWeb/Close run by goroutines under *)
(* one sync.RWMutex, construction by New (index load + directory scan),    *)
(* and the environment: the process stopping at any step, files deleted    *)
(* out-of-band, write errors, the HTTP server's answers.                   *)
(***************************************************************************)
EXTENDS Integers, Sequences, FiniteSets, TLC

\* ------------------------------------------------------------------ bounds
\* write errors (create, write, close, rename) the file system may return
MaxFaults == 1
\* times the process may stop (exit, kill, power loss) and be started again
MaxStops == 1
\* backing files that may be deleted out-of-band
MaxDeletes == 1
\* largest reading of the clock (time.Now); the clock stops advancing there
MaxTime == 1

\* logical keys (a URL is a key too)
Keys == {"k1", "k2"}
\* goroutines calling the facade concurrently
Goroutines == {"g1", "g2"}

\* ------------------------------------------------------------- Go values
\* An interface{} value: kind is its dynamic type, isnil tells a nil slice
\* from an empty one, elems holds the int, the elements or the bytes.
GoVal(kind, isnil, elems) == [kind |-> kind, isnil |-> isnil, elems |-> elems]

\* the untyped nil
NilVal == GoVal("nil", TRUE, <<>>)

IntVal(n) == GoVal("int", FALSE, <<n>>)

\* a []interface{}; every element an int
SliceVal(xs) == GoVal("[]interface {}", FALSE, xs)

NilSlice == GoVal("[]interface {}", TRUE, <<>>)

\* a []byte
BytesVal(bs) == GoVal("[]uint8", FALSE, bs)

NilBytes == GoVal("[]uint8", TRUE, <<>>)

\* a value of a type never passed to gob.Register (a struct, a []string)
UnregisteredVal == GoVal("struct", FALSE, <<>>)

\* what the two values denote in the spec's data model: a nil slice and an
\* empty slice are both the empty sequence
SameValue(a, b) == a.kind = b.kind /\ a.elems = b.elems

\* ---------------------------------------------------------- gob (init, 22-32)
\* the concrete types registered for transmission inside an interface
RegisteredKinds == {"int", "[]interface {}", "[]uint8"}

\* whether encoder.Encode accepts the value held in an interface: nil is
\* sent as an empty type name, any other type must be registered
Encodable(v) == v.kind = "nil" \/ v.kind \in RegisteredKinds

\* A file's content.  wtype: the gob type of the top-level value ("absent":
\* no such file, "empty": created and nothing written); name: the type name
\* sent for the interface value under "data"; elems: the payload; entries:
\* the index map.
NoMeta == [Type |-> "none", CreatedAt |-> 0, UpdatedAt |-> 0]

NoEntries == [k \in {} |-> NoMeta]

Content(wtype, name, elems, entries) ==
    [wtype |-> wtype, name |-> name, elems |-> elems, entries |-> entries]

NoFile == Content("absent", "", <<>>, NoEntries)

EmptyFile == Content("empty", "", <<>>, NoEntries)

\* EncodeWrapper with the value sent without its concrete type name
EncodeWrapperUntyped(v) == Content("map[string]interface {}", "", v.elems, NoEntries)

\* gob of map[string]interface{}{"data": v}: the map type, then the
\* concrete type name of v ("" for nil) and its value
EncodeWrapper(v) == Content("map[string]interface {}", IF v.kind = "nil" THEN "" ELSE v.kind, v.elems, NoEntries)

\* gob of a []interface{}: the length and the elements; a nil slice and an
\* empty one are both sent as length 0
EncodeList(items) == Content("[]interface {}", "", items.elems, NoEntries)

\* gob of a []byte
EncodeBytes(b) == Content("[]uint8", "", b.elems, NoEntries)

\* gob of *RootIndex
EncodeIndex(entries) == Content("RootIndex", "", <<>>, entries)

\* decoder.Decode succeeds when the stream holds a value of the target's type
Decodable(c, wtype) == c.wtype = wtype

\* decoding a slice or []byte into a nil target: a length of 0 leaves the
\* target nil, a longer one allocates
DecodeSlice(kind, elems) == GoVal(kind, elems = <<>>, elems)

\* the value under "data" of a decoded wrapper
DecodeWrapper(c) ==
    IF c.name = "" THEN NilVal
    ELSE IF c.name = "int" THEN GoVal("int", FALSE, c.elems)
    ELSE DecodeSlice(c.name, c.elems)

\* ------------------------------------------------------------- file names
\* hashKey giving every key the digest of the empty string
hashKeyIgnoringKey(key) == "sha256()"

\* hashKey: the hex SHA-256 of the key; distinct keys get distinct digests
hashKey(key) == "sha256(" \o key \o ")"

\* getFilePath: <dir>/<digest>.bin
getFilePath(key) == hashKey(key) \o ".bin"

\* getRootIndexPath: <dir>/root.index.bin
getRootIndexPath == "root.index.bin"

\* saveToFile's tmpPath
TmpPath(filePath) == filePath \o ".tmp"

TargetNames == {getFilePath(k) : k \in Keys} \cup {getRootIndexPath}

TmpNames == {TmpPath(f) : f \in TargetNames}

\* every file name the cache directory can hold
FileNames == TargetNames \cup TmpNames

\* strings.HasSuffix(filename, ".tmp")
HasSuffixTmp(filename) == filename \in TmpNames

\* ------------------------------------------------------------------ state
VARIABLES
    up,         \* TRUE while the process runs with a constructed *Cache
    rootIndex,  \* c.rootIndex.Entries: key -> Metadata (a map: partial)
    files,      \* the cache directory: file name -> Content
    mu,         \* c.mu: the goroutine holding Lock, those holding RLock
    g,          \* each goroutine: its call, its position in it, its result
    now,        \* the clock read by time.Now()
    budget,     \* what the environment may still do: faults, stops, deletes
    last,       \* history: per key, the latest write and what followed it
    newRet,     \* what the latest call of New was given and returned
    cli         \* the command-line process: where run() is, and how it ended

vars == <<up, rootIndex, files, mu, g, now, budget, last, newRet, cli>>

\* what a call returns: (value, found, err); "nil" is the nil error
Ret(value, found, err) == [value |-> value, found |-> found, err |-> err]

NoRet == Ret(NilVal, FALSE, "none")

\* pc: "idle", "Lock" / "RLock" (waiting for c.mu), "read", "fetch",
\* "Create" / "Encode" / "Rename" (inside saveToFile), "Stamp" / "SetIndex"
\* (building and storing the Metadata), "ret"
\* (the result is computed; the deferred unlock and the return are next).
\* created: the first reading of time.Now() taken for the Metadata.  over:
\* the history of the key when the call took the shared lock (a read) or
\* the exclusive one (Set, SetList): the st it had, or "same" when the same
\* payload was already stored by the same operation.
\* phase: which saveToFile call runs, "entry" (the backing file) or "index"
\* (saveRootIndex).  reqs: HTTP requests this call has issued.  conc: a Set
\* on another key was in flight during this Set.
Idle == [pc |-> "idle", op |-> "none", key |-> "", arg |-> NilVal, phase |-> "none",
         created |-> 0, ret |-> NoRet, reqs |-> 0, conc |-> FALSE, over |-> "none"]

NoLock == [writer |-> "none", readers |-> {}]

\* the cacheDir arguments of New: the empty string, a path that is a regular
\* file (os.MkdirAll fails on it), the cache directory.  (os.TempDir() makes
\* New create a fresh empty directory: the state Constructed.)
CacheDirs == {"", "/a/file", "/cache"}

\* what scanDirectory did and logged: the temp files it removed and its
\* two warnings, the orphaned files and the keys it dropped from the index
ScanLog(removed, orphans, dangling) ==
    [removed |-> removed, orphans |-> orphans, dangling |-> dangling]

NoLog == ScanLog({}, {}, {})

\* what New was given and returned: (*Cache, error), cache = FALSE for nil
NewRet(cacheDir, cache, err) ==
    [dir |-> cacheDir, cache |-> cache, err |-> err, log |-> NoLog]

\* no call of New has returned in this process
NoNewRet == NewRet("none", FALSE, "none")

\* history of a key.  st: "none" never written; "dirty" a write was
\* attempted and did not (yet) return nil; "Set" / "SetList" / "GetWeb" the
\* latest write returned nil and stored val; "deleted" the backing file was
\* deleted out-of-band after the latest write; "reconciled" a New ran after
\* that deletion.  phase: "live" written by this cache instance, "closed"
\* a Close returned nil since, "reopened" written, closed, and a New ran
\* since, "crashed" a New ran with no Close before it.
\* conc: the write ran while a Set on another key was in flight.
History(st, val, phase, conc) == [st |-> st, val |-> val, phase |-> phase, conc |-> conc]

NoHistory == History("none", NilVal, "live", FALSE)

Dirty == History("dirty", NilVal, "live", FALSE)

\* run() of main.go: pc is "off" (no command-line process is modelled),
\* "args", "config", "new", "clear", "command", "deferred" (the deferred
\* function calling c.Close() runs) or "exited"; cache: cache.New has
\* returned a cache in this process; closed: c.Close() has returned in it;
\* code: the exit status, -1 until it is known
Cli(pc, command, cache, closed, code) ==
    [pc |-> pc, command |-> command, cache |-> cache, closed |-> closed, code |-> code]

NoCli == Cli("off", "", FALSE, FALSE, -1)

\* New has returned a cache over a directory it created
Constructed ==
    /\ up = TRUE
    /\ rootIndex = NoEntries
    /\ files = [f \in FileNames |-> NoFile]
    /\ mu = NoLock
    /\ g = [p \in Goroutines |-> Idle]
    /\ now = 0
    /\ last = [k \in Keys |-> NoHistory]
    /\ newRet = NewRet("/cache", TRUE, "nil")
    /\ cli = NoCli

Init ==
    /\ Constructed
    /\ budget = [faults |-> MaxFaults, stops |-> MaxStops, deletes |-> MaxDeletes]

\* ---------------------------------------------------------------- reads
\* loadFromFile taking a file it cannot decode for a file that is not there
loadFromFileLenient(fs, filePath, wtype) ==
    IF fs[filePath] = NoFile \/ ~Decodable(fs[filePath], wtype)
    THEN [err |-> "nil", loaded |-> FALSE, c |-> NoFile]
    ELSE [err |-> "nil", loaded |-> TRUE, c |-> fs[filePath]]

\* ---------------------------------------------------------------- reads
\* loadFromFile(filePath, target): a missing file is no error and leaves
\* the target as it was (loaded = FALSE); an undecodable one is an error
loadFromFile(fs, filePath, wtype) ==
    IF fs[filePath] = NoFile THEN [err |-> "nil", loaded |-> FALSE, c |-> NoFile]
    ELSE IF ~Decodable(fs[filePath], wtype) THEN [err |-> "decode", loaded |-> FALSE, c |-> NoFile]
    ELSE [err |-> "nil", loaded |-> TRUE, c |-> fs[filePath]]

\* Get returning found = true with the decode error
GetFoundOnError(entries, fs, key) ==
    IF key \notin DOMAIN entries THEN Ret(NilVal, FALSE, "nil")
    ELSE IF entries[key].Type # "scalar" THEN Ret(NilVal, FALSE, "not a scalar entry")
    ELSE LET l == loadFromFile(fs, getFilePath(key), "map[string]interface {}")
         IN  IF l.err # "nil" THEN Ret(NilVal, TRUE, l.err)
             ELSE IF ~l.loaded THEN Ret(NilVal, FALSE, "data field missing")
             ELSE Ret(DecodeWrapper(l.c), TRUE, "nil")

\* the body of Get, under the shared lock
Get(entries, fs, key) ==
    IF key \notin DOMAIN entries THEN Ret(NilVal, FALSE, "nil")
    ELSE IF entries[key].Type # "scalar" THEN Ret(NilVal, FALSE, "not a scalar entry")
    ELSE LET l == loadFromFile(fs, getFilePath(key), "map[string]interface {}")
         IN  IF l.err # "nil" THEN Ret(NilVal, FALSE, l.err)
             ELSE IF ~l.loaded THEN Ret(NilVal, FALSE, "data field missing")
             ELSE Ret(DecodeWrapper(l.c), TRUE, "nil")

\* GetList reporting a key of another type as a key that is not there
GetListMismatchAsMiss(entries, fs, key) ==
    IF key \notin DOMAIN entries \/ entries[key].Type # "list" THEN Ret(NilSlice, FALSE, "ErrNotFound")
    ELSE LET l == loadFromFile(fs, getFilePath(key), "[]interface {}")
         IN  IF l.err # "nil" THEN Ret(NilSlice, FALSE, l.err)
             ELSE IF ~l.loaded THEN Ret(NilSlice, FALSE, "nil")
             ELSE Ret(DecodeSlice("[]interface {}", l.c.elems), FALSE, "nil")

\* GetList returning (nil, nil) for a key that is not there
GetListMissingAsEmpty(entries, fs, key) ==
    IF key \notin DOMAIN entries THEN Ret(NilSlice, FALSE, "nil")
    ELSE IF entries[key].Type # "list" THEN Ret(NilSlice, FALSE, "not a list entry")
    ELSE LET l == loadFromFile(fs, getFilePath(key), "[]interface {}")
         IN  IF l.err # "nil" THEN Ret(NilSlice, FALSE, l.err)
             ELSE IF ~l.loaded THEN Ret(NilSlice, FALSE, "nil")
             ELSE Ret(DecodeSlice("[]interface {}", l.c.elems), FALSE, "nil")

\* the body of GetList, under the shared lock
GetList(entries, fs, key) ==
    IF key \notin DOMAIN entries THEN Ret(NilSlice, FALSE, "ErrNotFound")
    ELSE IF entries[key].Type # "list" THEN Ret(NilSlice, FALSE, "not a list entry")
    ELSE LET l == loadFromFile(fs, getFilePath(key), "[]interface {}")
         IN  IF l.err # "nil" THEN Ret(NilSlice, FALSE, l.err)
             ELSE IF ~l.loaded THEN Ret(NilSlice, FALSE, "nil")
             ELSE Ret(DecodeSlice("[]interface {}", l.c.elems), FALSE, "nil")

\* WebHit never finding the entry: every call fetches
WebHitNever(entries, key) == FALSE

\* GetWeb's test for a cached entry
WebHit(entries, key) == key \in DOMAIN entries /\ entries[key].Type = "web"

\* the hit branch of GetWeb, under the shared lock
GetWebCached(fs, key) ==
    LET l == loadFromFile(fs, getFilePath(key), "[]uint8")
    IN  IF l.err # "nil" THEN Ret(NilBytes, FALSE, l.err)
        ELSE IF ~l.loaded THEN Ret(NilBytes, FALSE, "nil")
        ELSE Ret(DecodeSlice("[]uint8", l.c.elems), FALSE, "nil")

\* --------------------------------------------------------------- inputs
\* what the callers pass and the HTTP server sends: scalars for Set, slices
\* for SetList, bodies for GetWeb (io.ReadAll returns a non-nil slice)
Inputs ==
    [scalars |-> {IntVal(1), IntVal(2), UnregisteredVal},
     lists   |-> {SliceVal(<<1, 2>>)},
     bodies  |-> {BytesVal(<<1>>), BytesVal(<<2>>)}]

\* what concurrent callers pass
ConcInputs ==
    [scalars |-> {IntVal(1), IntVal(2)},
     lists   |-> {SliceVal(<<1, 2>>)},
     bodies  |-> {BytesVal(<<1>>), BytesVal(<<2>>)}]

\* more shapes of each: nil, empty and non-empty, two orders of a list
ManyInputs ==
    [scalars |-> {NilVal, IntVal(1), SliceVal(<<>>), BytesVal(<<1>>), UnregisteredVal},
     lists   |-> {NilSlice, SliceVal(<<>>), SliceVal(<<1>>), SliceVal(<<1, 2>>), SliceVal(<<2, 1>>)},
     bodies  |-> {BytesVal(<<>>), BytesVal(<<1>>)}]

\* what callers storing empty lists and empty bodies pass
EmptyInputs ==
    [scalars |-> {IntVal(1)},
     lists   |-> {SliceVal(<<>>)},
     bodies  |-> {BytesVal(<<>>)}]

\* ---------------------------------------------------------------- helpers
\* g with goroutine p's record replaced
SetG(p, rec) == [g EXCEPT ![p] = rec]

\* the operations that write: they take c.mu.Lock()
IsWrite(op) == op \in {"Set", "SetList", "GetWeb"}

\* MapSet replacing the whole map by the one entry
MapSetAlone(entries, key, meta) == [k \in {key} |-> meta]

\* MapSet evicting the entries of another type
MapSetEvicting(entries, key, meta) ==
    [k \in {j \in DOMAIN entries : entries[j].Type = meta.Type} \cup {key} |->
        IF k = key THEN meta ELSE entries[k]]

\* entries with entries[key] = meta (a Go map assignment)
MapSet(entries, key, meta) ==
    [k \in DOMAIN entries \cup {key} |-> IF k = key THEN meta ELSE entries[k]]

\* delete(entries, key) for every key of gone
MapDelete(entries, gone) == [k \in DOMAIN entries \ gone |-> entries[k]]

\* the path saveToFile writes in goroutine p's current phase
TargetPath(p) == IF g[p].phase = "index" THEN getRootIndexPath ELSE getFilePath(g[p].key)

\* whether the data p's saveToFile is given can be gob-encoded
DataEncodable(p) == g[p].phase = "index" \/ g[p].op # "Set" \/ Encodable(g[p].arg)

\* DataEncoded with SetList appending to the list already stored
DataEncodedAppending(p) ==
    IF g[p].phase = "index" THEN EncodeIndex(rootIndex)
    ELSE IF g[p].op = "Set" THEN EncodeWrapper(g[p].arg)
    ELSE IF g[p].op = "SetList"
    THEN LET old == files[getFilePath(g[p].key)]
         IN  IF old.wtype = "[]interface {}"
             THEN Content("[]interface {}", "", old.elems \o g[p].arg.elems, NoEntries)
             ELSE EncodeList(g[p].arg)
    ELSE EncodeBytes(g[p].arg)

\* DataEncoded with GetWeb appending its body to the one already stored
DataEncodedMergingBodies(p) ==
    IF g[p].phase = "index" THEN EncodeIndex(rootIndex)
    ELSE IF g[p].op = "Set" THEN EncodeWrapper(g[p].arg)
    ELSE IF g[p].op = "SetList" THEN EncodeList(g[p].arg)
    ELSE LET old == files[getFilePath(g[p].key)]
         IN  IF old.wtype = "[]uint8"
             THEN Content("[]uint8", "", old.elems \o g[p].arg.elems, NoEntries)
             ELSE EncodeBytes(g[p].arg)

\* DataEncoded with Close writing again what the index file holds
DataEncodedStaleClose(p) ==
    IF g[p].phase = "index"
    THEN IF g[p].op = "Close" /\ files[getRootIndexPath] # NoFile
         THEN files[getRootIndexPath] ELSE EncodeIndex(rootIndex)
    ELSE IF g[p].op = "Set" THEN EncodeWrapper(g[p].arg)
    ELSE IF g[p].op = "SetList" THEN EncodeList(g[p].arg)
    ELSE EncodeBytes(g[p].arg)

\* the gob stream of the data p's saveToFile is given
DataEncoded(p) ==
    IF g[p].phase = "index" THEN EncodeIndex(rootIndex)
    ELSE IF g[p].op = "Set" THEN EncodeWrapper(g[p].arg)
    ELSE IF g[p].op = "SetList" THEN EncodeList(g[p].arg)
    ELSE EncodeBytes(g[p].arg)

\* what a write of payload arg by op finds in the key's history h
Over(h, op, arg) == IF h.st = op /\ SameValue(h.val, arg) THEN "same" ELSE h.st

\* the tag each writer stores
TypeOf(op) == IF op = "Set" THEN "scalar" ELSE IF op = "SetList" THEN "list" ELSE "web"

\* what the call returns when a saveToFile step fails with err: GetWeb
\* returns (nil, err) from the backing-file save and (content, err) from
\* `return content, c.saveRootIndex()`
ErrRet(p, err) ==
    IF g[p].op = "GetWeb"
    THEN Ret(IF g[p].phase = "index" THEN g[p].arg ELSE NilBytes, FALSE, err)
    ELSE Ret(NilVal, FALSE, err)

\* what a writer returns when saveRootIndex returned nil
OkRet(p) == Ret(IF g[p].op = "GetWeb" THEN g[p].arg ELSE NilVal, FALSE, "nil")

\* ------------------------------------------------------------- the calls
\* a goroutine starts a call on the constructed cache
StartCall(p, op, key, arg, pc) ==
    /\ up
    /\ g[p].pc = "idle"
    /\ g' = SetG(p, [Idle EXCEPT !.pc = pc, !.op = op, !.key = key, !.arg = arg])
    /\ UNCHANGED <<up, rootIndex, files, mu, now, budget, last, newRet, cli>>

\* Set(key, value) is called; a Set on another key in flight makes both
\* calls concurrent ones
CallSet(p, in) ==
    \E key \in Keys, value \in in.scalars :
        /\ up
        /\ g[p].pc = "idle"
        /\ LET others == {q \in Goroutines \ {p} : g[q].op = "Set" /\ g[q].key # key}
           IN  g' = [q \in Goroutines |->
                        IF q = p THEN [Idle EXCEPT !.pc = "Lock", !.op = "Set", !.key = key,
                                                   !.arg = value, !.conc = others # {}]
                        ELSE IF q \in others THEN [g[q] EXCEPT !.conc = TRUE]
                        ELSE g[q]]
        /\ UNCHANGED <<up, rootIndex, files, mu, now, budget, last, newRet, cli>>

CallSetList(p, in) ==
    \E key \in Keys, items \in in.lists : StartCall(p, "SetList", key, items, "Lock")

CallGet(p) ==
    \E key \in Keys : StartCall(p, "Get", key, NilVal, "RLock")

CallGetList(p) ==
    \E key \in Keys : StartCall(p, "GetList", key, NilVal, "RLock")

CallGetWeb(p) ==
    \E url \in Keys :
        /\ up
        /\ g[p].pc = "idle"
        /\ g' = SetG(p, [Idle EXCEPT !.pc = "RLock", !.op = "GetWeb", !.key = url, !.arg = NilBytes])
        /\ UNCHANGED <<up, rootIndex, files, mu, now, budget, last, newRet, cli>>

CallClose(p) == StartCall(p, "Close", "", NilVal, "Lock")

\* Lock granted while other goroutines hold the shared lock
LockIgnoringReaders(p) ==
    /\ g[p].pc = "Lock"
    /\ mu.writer = "none"
    /\ mu' = [mu EXCEPT !.writer = p]
    /\ g' = SetG(p, [g[p] EXCEPT !.pc = "Create",
                                 !.phase = IF g[p].op = "Close" THEN "index" ELSE "entry",
                                 !.over = IF g[p].op \in {"Set", "SetList"}
                                          THEN Over(last[g[p].key], g[p].op, g[p].arg) ELSE @])
    /\ last' = IF IsWrite(g[p].op) THEN [last EXCEPT ![g[p].key] = Dirty] ELSE last
    /\ UNCHANGED <<up, rootIndex, files, now, budget, newRet, cli>>

\* c.mu.Lock() returns: no goroutine holds the lock in either mode.  A
\* writer goes on to saveToFile(filePath, ...), Close to saveRootIndex.
Lock(p) ==
    /\ g[p].pc = "Lock"
    /\ mu.writer = "none" /\ mu.readers = {}
    /\ mu' = [mu EXCEPT !.writer = p]
    /\ g' = SetG(p, [g[p] EXCEPT !.pc = "Create",
                                 !.phase = IF g[p].op = "Close" THEN "index" ELSE "entry",
                                 !.over = IF g[p].op \in {"Set", "SetList"}
                                          THEN Over(last[g[p].key], g[p].op, g[p].arg) ELSE @])
    /\ last' = IF IsWrite(g[p].op) THEN [last EXCEPT ![g[p].key] = Dirty] ELSE last
    /\ UNCHANGED <<up, rootIndex, files, now, budget, newRet, cli>>

\* RLock granted while another goroutine holds the exclusive lock
RLockIgnoringWriter(p) ==
    /\ g[p].pc = "RLock"
    /\ mu' = [mu EXCEPT !.readers = @ \cup {p}]
    /\ g' = SetG(p, [g[p] EXCEPT !.pc = "read",
                                 !.over = last[g[p].key].st])
    /\ UNCHANGED <<up, rootIndex, files, now, budget, last, newRet, cli>>

\* c.mu.RLock() returns: no goroutine holds the exclusive lock; the read
\* starts on the key as its history is then
RLock(p) ==
    /\ g[p].pc = "RLock"
    /\ mu.writer = "none"
    /\ mu' = [mu EXCEPT !.readers = @ \cup {p}]
    /\ g' = SetG(p, [g[p] EXCEPT !.pc = "read",
                                 !.over = last[g[p].key].st])
    /\ UNCHANGED <<up, rootIndex, files, now, budget, last, newRet, cli>>

\* Get and GetList read the index and the backing file
Read(p) ==
    /\ g[p].pc = "read"
    /\ g[p].op \in {"Get", "GetList"}
    /\ g' = SetG(p, [g[p] EXCEPT !.pc = "ret",
                                 !.ret = IF g[p].op = "Get" THEN Get(rootIndex, files, g[p].key)
                                         ELSE GetList(rootIndex, files, g[p].key)])
    /\ UNCHANGED <<up, rootIndex, files, mu, now, budget, last, newRet, cli>>

\* GetWebCheck keeping the shared lock over the fetch
GetWebCheckHoldingLock(p) ==
    /\ g[p].pc = "read"
    /\ g[p].op = "GetWeb"
    /\ IF WebHit(rootIndex, g[p].key)
       THEN g' = SetG(p, [g[p] EXCEPT !.pc = "ret", !.ret = GetWebCached(files, g[p].key)])
       ELSE g' = SetG(p, [g[p] EXCEPT !.pc = "fetch"])
    /\ UNCHANGED <<up, rootIndex, files, mu, now, budget, last, newRet, cli>>

\* GetWeb, lines 283-295: a web entry is read and returned; otherwise the
\* shared lock is released and the fetch starts
GetWebCheck(p) ==
    /\ g[p].pc = "read"
    /\ g[p].op = "GetWeb"
    /\ IF WebHit(rootIndex, g[p].key)
       THEN /\ g' = SetG(p, [g[p] EXCEPT !.pc = "ret", !.ret = GetWebCached(files, g[p].key)])
            /\ mu' = mu
       ELSE /\ g' = SetG(p, [g[p] EXCEPT !.pc = "fetch"])
            /\ mu' = [mu EXCEPT !.readers = @ \ {p}]
    /\ UNCHANGED <<up, rootIndex, files, now, budget, last, newRet, cli>>

\* FetchFail remembering the failure as an entry of the index
FetchFailCached(p) ==
    /\ g[p].pc = "fetch"
    /\ \E err \in {"download failed", "status code", "read body"} :
          g' = SetG(p, [g[p] EXCEPT !.pc = "ret", !.reqs = @ + 1, !.ret = Ret(NilBytes, FALSE, err)])
    /\ rootIndex' = [k \in DOMAIN rootIndex \cup {g[p].key} |->
                        IF k = g[p].key THEN [Type |-> "web", CreatedAt |-> now, UpdatedAt |-> now]
                        ELSE rootIndex[k]]
    /\ UNCHANGED <<up, files, mu, now, budget, last, newRet, cli>>

\* httpClient.Get fails, the status is not 200, or reading the body fails:
\* GetWeb returns the error, holding no lock
FetchFail(p) ==
    /\ g[p].pc = "fetch"
    /\ \E err \in {"download failed", "status code", "read body"} :
          g' = SetG(p, [g[p] EXCEPT !.pc = "ret", !.reqs = @ + 1, !.ret = Ret(NilBytes, FALSE, err)])
    /\ UNCHANGED <<up, rootIndex, files, mu, now, budget, last, newRet, cli>>

\* the server answers 200 and the body is read in full; c.mu.Lock() is next
FetchOk(p, in) ==
    /\ g[p].pc = "fetch"
    /\ \E content \in in.bodies :
          g' = SetG(p, [g[p] EXCEPT !.pc = "Lock", !.reqs = @ + 1, !.arg = content])
    /\ UNCHANGED <<up, rootIndex, files, mu, now, budget, last, newRet, cli>>

\* ------------------------------------------------------------ saveToFile
\* SaveCreate truncating the file at the final path as well
SaveCreateInPlace(p) ==
    /\ g[p].pc = "Create"
    /\ files' = [files EXCEPT ![TmpPath(TargetPath(p))] = EmptyFile, ![TargetPath(p)] = EmptyFile]
    /\ g' = SetG(p, [g[p] EXCEPT !.pc = "Encode"])
    /\ UNCHANGED <<up, rootIndex, mu, now, budget, last, newRet, cli>>

\* os.Create(tmpPath), lines 82-83: the temp file is created or truncated
SaveCreate(p) ==
    /\ g[p].pc = "Create"
    /\ files' = [files EXCEPT ![TmpPath(TargetPath(p))] = EmptyFile]
    /\ g' = SetG(p, [g[p] EXCEPT !.pc = "Encode"])
    /\ UNCHANGED <<up, rootIndex, mu, now, budget, last, newRet, cli>>

\* os.Create fails, lines 84-86: saveToFile returns the error
SaveCreateFail(p) ==
    /\ g[p].pc = "Create"
    /\ budget.faults > 0
    /\ budget' = [budget EXCEPT !.faults = @ - 1]
    /\ g' = SetG(p, [g[p] EXCEPT !.pc = "ret", !.ret = ErrRet(p, "create temp file")])
    /\ UNCHANGED <<up, rootIndex, files, mu, now, last, newRet, cli>>

\* encoder.Encode(data) and file.Close(), lines 88-98: the stream is
\* written and the file closed; a value of an unregistered type fails to
\* encode, the temp file is removed and the error returned
SaveEncode(p) ==
    /\ g[p].pc = "Encode"
    /\ IF DataEncodable(p)
       THEN /\ files' = [files EXCEPT ![TmpPath(TargetPath(p))] = DataEncoded(p)]
            /\ g' = SetG(p, [g[p] EXCEPT !.pc = "Rename"])
       ELSE /\ files' = [files EXCEPT ![TmpPath(TargetPath(p))] = NoFile]
            /\ g' = SetG(p, [g[p] EXCEPT !.pc = "ret", !.ret = ErrRet(p, "encode")])
    /\ UNCHANGED <<up, rootIndex, mu, now, budget, last, newRet, cli>>

\* the write or the close fails, lines 89-98: the temp file is removed and
\* the error returned
SaveEncodeFail(p) ==
    /\ g[p].pc = "Encode"
    /\ budget.faults > 0
    /\ budget' = [budget EXCEPT !.faults = @ - 1]
    /\ files' = [files EXCEPT ![TmpPath(TargetPath(p))] = NoFile]
    /\ g' = SetG(p, [g[p] EXCEPT !.pc = "ret", !.ret = ErrRet(p, "encode")])
    /\ UNCHANGED <<up, rootIndex, mu, now, last, newRet, cli>>

\* the history of goroutine p's key once p's backing file is in place (any
\* earlier deletion is undone) and once p's index save has returned nil
AfterRename(p) ==
    IF g[p].phase = "entry" THEN [last EXCEPT ![g[p].key] = Dirty]
    ELSE IF g[p].op = "Close"
    THEN [k \in Keys |-> IF last[k].st \in {"Set", "SetList", "GetWeb"} /\ last[k].phase = "live"
                         THEN [last[k] EXCEPT !.phase = "closed"] ELSE last[k]]
    ELSE IF last[g[p].key].st = "dirty"
    THEN [last EXCEPT ![g[p].key] = History(g[p].op, g[p].arg, "live", g[p].conc)]
    ELSE last

\* SaveRename failing when a file is already at the final path
SaveRenameNoReplace(p) ==
    /\ g[p].pc = "Rename"
    /\ IF files[TmpPath(TargetPath(p))] = NoFile \/ files[TargetPath(p)] # NoFile
       THEN /\ g' = SetG(p, [g[p] EXCEPT !.pc = "ret", !.ret = ErrRet(p, "rename")])
            /\ UNCHANGED <<files, last>>
       ELSE /\ files' = [files EXCEPT ![TargetPath(p)] = files[TmpPath(TargetPath(p))],
                                      ![TmpPath(TargetPath(p))] = NoFile]
            /\ g' = SetG(p, IF g[p].phase = "entry"
                            THEN [g[p] EXCEPT !.pc = "Stamp"]
                            ELSE [g[p] EXCEPT !.pc = "ret", !.ret = OkRet(p)])
            /\ last' = AfterRename(p)
    /\ UNCHANGED <<up, rootIndex, mu, now, budget, newRet, cli>>

\* os.Rename(tmpPath, filePath), line 100: the temp file replaces the
\* target in one step (a temp file that is gone makes the rename fail).
\* After the backing file the Metadata is built; after the index file the
\* operation returns nil.
SaveRename(p) ==
    /\ g[p].pc = "Rename"
    /\ IF files[TmpPath(TargetPath(p))] = NoFile
       THEN /\ g' = SetG(p, [g[p] EXCEPT !.pc = "ret", !.ret = ErrRet(p, "rename")])
            /\ UNCHANGED <<files, last>>
       ELSE /\ files' = [files EXCEPT ![TargetPath(p)] = files[TmpPath(TargetPath(p))],
                                      ![TmpPath(TargetPath(p))] = NoFile]
            /\ g' = SetG(p, IF g[p].phase = "entry"
                            THEN [g[p] EXCEPT !.pc = "Stamp"]
                            ELSE [g[p] EXCEPT !.pc = "ret", !.ret = OkRet(p)])
            /\ last' = AfterRename(p)
    /\ UNCHANGED <<up, rootIndex, mu, now, budget, newRet, cli>>

\* SaveRenameFail losing the file at the final path
SaveRenameFailDroppingTarget(p) ==
    /\ g[p].pc = "Rename"
    /\ budget.faults > 0
    /\ budget' = [budget EXCEPT !.faults = @ - 1]
    /\ files' = [files EXCEPT ![TargetPath(p)] = NoFile]
    /\ g' = SetG(p, [g[p] EXCEPT !.pc = "ret", !.ret = ErrRet(p, "rename")])
    /\ UNCHANGED <<up, rootIndex, mu, now, last, newRet, cli>>

\* os.Rename fails: saveToFile returns the error, the temp file stays
SaveRenameFail(p) ==
    /\ g[p].pc = "Rename"
    /\ budget.faults > 0
    /\ budget' = [budget EXCEPT !.faults = @ - 1]
    /\ g' = SetG(p, [g[p] EXCEPT !.pc = "ret", !.ret = ErrRet(p, "rename")])
    /\ UNCHANGED <<up, rootIndex, files, mu, now, last, newRet, cli>>

\* ------------------------------------------------------------ the index
\* the Metadata a writer stores: both stamps are readings of time.Now()
NewMetadata(op, created, updated) == [Type |-> TypeOf(op), CreatedAt |-> created, UpdatedAt |-> updated]

\* CreatedAt: time.Now(), the first reading (Set 206, SetList 251, GetWeb 322)
Stamp(p) ==
    /\ g[p].pc = "Stamp"
    /\ g' = SetG(p, [g[p] EXCEPT !.pc = "SetIndex", !.created = now])
    /\ UNCHANGED <<up, rootIndex, files, mu, now, budget, last, newRet, cli>>

\* SetIndex returning nil at once, the index being saved by Close only
SetIndexDeferred(p) ==
    /\ g[p].pc = "SetIndex"
    /\ rootIndex' = MapSet(rootIndex, g[p].key, NewMetadata(g[p].op, g[p].created, now))
    /\ g' = SetG(p, [g[p] EXCEPT !.pc = "ret", !.phase = "index", !.created = 0, !.ret = OkRet(p)])
    /\ last' = [last EXCEPT ![g[p].key] = History(g[p].op, g[p].arg, "live", g[p].conc)]
    /\ UNCHANGED <<up, files, mu, now, budget, newRet, cli>>

\* SetIndex keeping the tag of a key that is already indexed
SetIndexKeepTag(p) ==
    /\ g[p].pc = "SetIndex"
    /\ rootIndex' = MapSet(rootIndex, g[p].key,
                           IF g[p].key \in DOMAIN rootIndex
                           THEN [rootIndex[g[p].key] EXCEPT !.UpdatedAt = now]
                           ELSE NewMetadata(g[p].op, g[p].created, now))
    /\ g' = SetG(p, [g[p] EXCEPT !.pc = "Create", !.phase = "index", !.created = 0])
    /\ UNCHANGED <<up, files, mu, now, budget, last, newRet, cli>>

\* c.rootIndex.Entries[key] = Metadata{...} with UpdatedAt: time.Now() (Set
\* 204-208, SetList 249-253, GetWeb 320-324); saveRootIndex is next
SetIndex(p) ==
    /\ g[p].pc = "SetIndex"
    /\ rootIndex' = MapSet(rootIndex, g[p].key, NewMetadata(g[p].op, g[p].created, now))
    /\ g' = SetG(p, [g[p] EXCEPT !.pc = "Create", !.phase = "index", !.created = 0])
    /\ UNCHANGED <<up, files, mu, now, budget, last, newRet, cli>>

\* Return of a call that failed leaving the lock held
ReturnKeepingLockOnError(p) ==
    /\ g[p].pc = "ret"
    /\ mu' = IF g[p].ret.err \in {"none", "nil"}
             THEN [writer |-> IF mu.writer = p THEN "none" ELSE mu.writer, readers |-> mu.readers \ {p}]
             ELSE mu
    /\ g' = SetG(p, Idle)
    /\ UNCHANGED <<up, rootIndex, files, now, budget, last, newRet, cli>>

\* the deferred Unlock / RUnlock runs and the call returns
Return(p) ==
    /\ g[p].pc = "ret"
    /\ mu' = [writer |-> IF mu.writer = p THEN "none" ELSE mu.writer, readers |-> mu.readers \ {p}]
    /\ g' = SetG(p, Idle)
    /\ UNCHANGED <<up, rootIndex, files, now, budget, last, newRet, cli>>

\* ------------------------------------------------------------ construction
\* ScanFiles removing the backing files the index file does not list
ScanFilesRemovingOrphans(fs) ==
    [f \in FileNames |->
        IF HasSuffixTmp(f) THEN NoFile
        ELSE IF f \in {getFilePath(k) : k \in Keys \ DOMAIN fs[getRootIndexPath].entries} THEN NoFile
        ELSE fs[f]]

\* ScanFiles taking the temp file of the index for the index file
ScanFilesSkippingIndexTmp(fs) ==
    [f \in FileNames |->
        IF HasSuffixTmp(f) /\ f # TmpPath(getRootIndexPath) THEN NoFile ELSE fs[f]]

\* scanDirectory, lines 139-147: stray temp files are removed
ScanFiles(fs) == [f \in FileNames |-> IF HasSuffixTmp(f) THEN NoFile ELSE fs[f]]

\* KeysToRemove finding no dangling key
KeysToRemoveNone(entries, fs) == {}

\* scanDirectory, lines 154-165: the keys whose backing file is not on disk
KeysToRemove(entries, fs) == {k \in DOMAIN entries : fs[getFilePath(k)] = NoFile}

\* scanDirectory, lines 127-165, over the loaded index and the directory:
\* what it removes and what it warns about
Scanned(entries, fs) ==
    ScanLog({f \in TmpNames : fs[f] # NoFile},
            {f \in TargetNames \ {getRootIndexPath} :
                 fs[f] # NoFile /\ f \notin {getFilePath(k) : k \in DOMAIN entries}},
            KeysToRemove(entries, fs))

\* the history once New has run
AfterNew(h) ==
    IF h.st = "deleted" THEN [h EXCEPT !.st = "reconciled"]
    ELSE IF h.st \in {"Set", "SetList", "GetWeb"}
    THEN [h EXCEPT !.phase = IF @ = "closed" THEN "reopened" ELSE IF @ = "live" THEN "crashed" ELSE @]
    ELSE h

\* DirError taking every cacheDir for a usable directory
DirErrorNone(cacheDir) == "nil"

\* New, lines 337-362: the error of an unusable cacheDir, "nil" when the
\* directory is there or was created
DirError(cacheDir) ==
    IF cacheDir = "" THEN "cache directory cannot be empty"
    ELSE IF cacheDir = "/a/file" THEN "failed to create cache directory"
    ELSE "nil"

\* New starting from an empty index whatever the index file holds
NewWithoutIndex ==
    /\ ~up
    /\ up' = TRUE
    /\ rootIndex' = NoEntries
    /\ files' = ScanFiles(files)
    /\ last' = [k \in Keys |-> AfterNew(last[k])]
    /\ newRet' = [NewRet("/cache", TRUE, "nil") EXCEPT !.log = Scanned(NoEntries, files)]
    /\ UNCHANGED <<mu, g, now, budget, cli>>

\* New(cacheDir), lines 336-377: the directory checks, then loadRootIndex
\* (no index file: start empty; an undecodable one: New returns an error
\* and no cache), then scanDirectory
NewIn(dirs) ==
    /\ ~up
    /\ \E cacheDir \in dirs :
          LET l == loadFromFile(files, getRootIndexPath, "RootIndex")
              loaded == IF l.loaded THEN l.c.entries ELSE NoEntries
          IN  IF DirError(cacheDir) # "nil"
              THEN /\ newRet' = NewRet(cacheDir, FALSE, DirError(cacheDir))
                   /\ UNCHANGED <<up, rootIndex, files, last>>
              ELSE IF l.err # "nil"
              THEN /\ newRet' = NewRet(cacheDir, FALSE, "failed to load root index")
                   /\ UNCHANGED <<up, rootIndex, files, last>>
              ELSE /\ up' = TRUE
                   /\ rootIndex' = MapDelete(loaded, KeysToRemove(loaded, files))
                   /\ files' = ScanFiles(files)
                   /\ last' = [k \in Keys |-> AfterNew(last[k])]
                   /\ newRet' = [NewRet(cacheDir, TRUE, "nil") EXCEPT !.log = Scanned(loaded, files)]
    /\ UNCHANGED <<mu, g, now, budget, cli>>

\* New saving the index it has repaired
NewPersistingRepair ==
    /\ ~up
    /\ LET l == loadFromFile(files, getRootIndexPath, "RootIndex")
           loaded == IF l.loaded THEN l.c.entries ELSE NoEntries
           kept == MapDelete(loaded, KeysToRemove(loaded, files))
       IN  IF l.err # "nil"
           THEN /\ newRet' = NewRet("/cache", FALSE, "failed to load root index")
                /\ UNCHANGED <<up, rootIndex, files, last>>
           ELSE /\ up' = TRUE
                /\ rootIndex' = kept
                /\ files' = [ScanFiles(files) EXCEPT ![getRootIndexPath] = EncodeIndex(kept)]
                /\ last' = [k \in Keys |-> AfterNew(last[k])]
                /\ newRet' = [NewRet("/cache", TRUE, "nil") EXCEPT !.log = Scanned(loaded, files)]
    /\ UNCHANGED <<mu, g, now, budget, cli>>

\* New over the cache directory, as main.go calls it with the configured
\* directory
New == NewIn({"/cache"})

\* ------------------------------------------------------------- environment
\* the process stops (exit, kill, power loss) at any step: memory and the
\* goroutines are gone, the directory stays as it is
Crash ==
    /\ up
    /\ budget.stops > 0
    /\ budget' = [budget EXCEPT !.stops = @ - 1]
    /\ up' = FALSE
    /\ rootIndex' = NoEntries
    /\ mu' = NoLock
    /\ g' = [p \in Goroutines |-> Idle]
    /\ newRet' = NoNewRet
    /\ UNCHANGED <<files, now, last, cli>>

\* a backing file is deleted by something other than the cache
DeleteOutOfBand ==
    \E k \in Keys :
        /\ budget.deletes > 0
        /\ files[getFilePath(k)] # NoFile
        /\ budget' = [budget EXCEPT !.deletes = @ - 1]
        /\ files' = [files EXCEPT ![getFilePath(k)] = NoFile]
        /\ last' = [last EXCEPT ![k] = History("deleted", NilVal, "live", FALSE)]
        /\ UNCHANGED <<up, rootIndex, mu, g, now, newRet, cli>>

\* time passes
Tick ==
    /\ now < MaxTime
    /\ now' = now + 1
    /\ UNCHANGED <<up, rootIndex, files, mu, g, budget, last, newRet, cli>>

\* ----------------------------------------------------------- specification
\* one step of goroutine p's call
Step(p, in) ==
    \/ CallSet(p, in) \/ CallGet(p) \/ CallSetList(p, in) \/ CallGetList(p)
    \/ CallGetWeb(p) \/ CallClose(p)
    \/ Lock(p) \/ RLock(p) \/ Read(p) \/ GetWebCheck(p) \/ FetchFail(p) \/ FetchOk(p, in)
    \/ SaveCreate(p) \/ SaveEncode(p) \/ SaveRename(p) \/ Stamp(p) \/ SetIndex(p) \/ Return(p)

\* a write error in goroutine p's saveToFile
Fault(p) == SaveCreateFail(p) \/ SaveEncodeFail(p) \/ SaveRenameFail(p)

\* one caller; the process may stop and be constructed again, and backing
\* files may be deleted out-of-band
Next ==
    \/ Step("g1", Inputs)
    \/ New \/ Crash \/ DeleteOutOfBand

Spec == Init /\ [][Next]_vars

\* one caller on one cache instance, passing many shapes of values
InitQuiet ==
    /\ Constructed
    /\ budget = [faults |-> 0, stops |-> 0, deletes |-> 0]

NextValues == Step("g1", ManyInputs)

SpecValues == InitQuiet /\ [][NextValues]_vars

\* concurrent callers on one cache instance
NextConc == \E p \in Goroutines : Step(p, ConcInputs)

SpecConc == InitQuiet /\ [][NextConc]_vars

\* one caller whose writes may fail
InitFaults ==
    /\ Constructed
    /\ budget = [faults |-> MaxFaults, stops |-> 0, deletes |-> 0]

NextFaults == Step("g1", Inputs) \/ Fault("g1")

SpecFaults == InitFaults /\ [][NextFaults]_vars

\* one caller while time passes
NextClock == Step("g1", Inputs) \/ Tick

SpecClock == InitQuiet /\ [][NextClock]_vars

\* concurrent callers storing empty lists and bodies on one cache instance
\* while backing files may be deleted out-of-band
InitAbsent ==
    /\ Constructed
    /\ budget = [faults |-> 0, stops |-> 0, deletes |-> MaxDeletes]

NextAbsent == (\E p \in Goroutines : Step(p, EmptyInputs)) \/ DeleteOutOfBand

SpecAbsent == InitAbsent /\ [][NextAbsent]_vars

\* what a starting process may find in the directory: no index file, an
\* empty one, one holding the gob of another type, or one listing k1 as a
\* scalar; k1's backing file there or not; a stray temp file or none
Directories ==
    {[f \in FileNames |->
         IF f = getRootIndexPath THEN index
         ELSE IF f = getFilePath("k1") THEN backing
         ELSE IF f = TmpPath(getFilePath("k2")) THEN stray
         ELSE NoFile] :
       index \in {NoFile, EmptyFile, EncodeList(SliceVal(<<1, 2>>)),
                  EncodeIndex([k \in {"k1"} |-> NewMetadata("Set", 0, 0)])},
       backing \in {NoFile, EncodeWrapper(IntVal(1))},
       stray \in {NoFile, EmptyFile}}

\* what the callers of a cache constructed over such a directory pass
NewInputs ==
    [scalars |-> {IntVal(2)},
     lists   |-> {SliceVal(<<1, 2>>)},
     bodies  |-> {BytesVal(<<1>>)}]

\* what a caller whose writes may fail passes
RestartInputs ==
    [scalars |-> {IntVal(2), UnregisteredVal},
     lists   |-> {SliceVal(<<1, 2>>)},
     bodies  |-> {BytesVal(<<1>>)}]

\* one caller whose writes may fail, and whose process may stop and be
\* constructed again
InitRestart ==
    /\ Constructed
    /\ budget = [faults |-> MaxFaults, stops |-> MaxStops, deletes |-> 0]

NextRestart == Step("g1", RestartInputs) \/ Fault("g1") \/ Crash \/ New

SpecRestart == InitRestart /\ [][NextRestart]_vars

\* what the callers of the fair specification pass
LiveInputs ==
    [scalars |-> {IntVal(1)},
     lists   |-> {SliceVal(<<1, 2>>)},
     bodies  |-> {BytesVal(<<1>>)}]

\* the steps of goroutine p's call that wait for nothing: the reads, the
\* end of the fetch (httpClient has a Timeout, so a request ends), the
\* steps of saveToFile, the index assignment and the return
Progress(p) ==
    \/ Read(p) \/ GetWebCheck(p) \/ FetchFail(p) \/ FetchOk(p, LiveInputs)
    \/ SaveCreate(p) \/ SaveEncode(p) \/ SaveRename(p) \/ Stamp(p) \/ SetIndex(p) \/ Return(p)

\* concurrent callers of one key whose writes may fail, under fair
\* scheduling: a started call keeps running, and sync.RWMutex grants a
\* waiting Lock or RLock once the lock has been free for it often enough
NextLive ==
    \E p \in Goroutines :
        /\ Step(p, LiveInputs) \/ Fault(p)
        /\ g'[p].key \in {"", "k1"}

SpecLive ==
    /\ InitFaults /\ [][NextLive]_vars
    /\ \A p \in Goroutines :
          WF_vars(Progress(p)) /\ SF_vars(Lock(p)) /\ SF_vars(RLock(p))

\* a starting process over any cache directory: New has not been called
\* and nothing is known of how the directory came to be
InitNew ==
    /\ up = FALSE
    /\ rootIndex = NoEntries
    /\ files \in Directories
    /\ mu = NoLock
    /\ g = [p \in Goroutines |-> Idle]
    /\ now = 0
    /\ last = [k \in Keys |-> Dirty]
    /\ newRet = NoNewRet
    /\ cli = NoCli
    /\ budget = [faults |-> 0, stops |-> MaxStops, deletes |-> 0]

NextNew == Step("g1", NewInputs) \/ NewIn(CacheDirs) \/ Crash

SpecNew == InitNew /\ [][NextNew]_vars

\* ------------------------------------------------------ the command line
\* os.Args[1]: the commands of run()'s switch, "clear", and any other word
Commands == {"list", "scan", "stats", "get-fast", "clear", "unknown"}

\* the process terminates with status code: its memory is gone, the
\* directory stays as it is
Exit(closed, code) ==
    /\ cli' = [cli EXCEPT !.pc = "exited", !.closed = closed, !.code = code]
    /\ up' = FALSE
    /\ rootIndex' = NoEntries
    /\ mu' = NoLock
    /\ g' = [p \in Goroutines |-> Idle]
    /\ newRet' = NoNewRet

\* run(), lines 54-59: with no argument the usage is printed and run
\* returns 0; otherwise os.Args[1] is the command
RunArgs ==
    /\ cli.pc = "args"
    /\ \/ Exit(FALSE, 0)
       \/ /\ \E command \in Commands : cli' = [cli EXCEPT !.pc = "config", !.command = command]
          /\ UNCHANGED <<up, rootIndex, mu, g, newRet>>
    /\ UNCHANGED <<files, now, budget, last>>

\* run(), lines 61-65: config.Load() fails and run returns 1, or it
\* returns the configuration
RunConfig ==
    /\ cli.pc = "config"
    /\ \/ Exit(FALSE, 1)
       \/ /\ cli' = [cli EXCEPT !.pc = "new"]
          /\ UNCHANGED <<up, rootIndex, mu, g, newRet>>
    /\ UNCHANGED <<files, now, budget, last>>

\* run(), line 67: cache.New(cfg.Options.CacheDir)
RunNew ==
    /\ cli.pc = "new"
    /\ newRet = NoNewRet
    /\ NewIn(CacheDirs)

\* run(), lines 68-89: New's error makes run return 1; "clear" is handled
\* on its own; for every other command the call of c.Close() is deferred
RunAfterNew ==
    /\ cli.pc = "new"
    /\ newRet # NoNewRet
    /\ IF ~newRet.cache
       THEN Exit(FALSE, 1)
       ELSE /\ cli' = [cli EXCEPT !.pc = IF cli.command = "clear" THEN "clear" ELSE "command",
                                  !.cache = TRUE]
            /\ UNCHANGED <<up, rootIndex, mu, g, newRet>>
    /\ UNCHANGED <<files, now, budget, last>>

\* run(), lines 74-82: c.Clear() and return, 1 when it failed; what Clear
\* does to the directory is any of leaving it and emptying it
RunClear ==
    /\ cli.pc = "clear"
    /\ \E code \in {0, 1} : Exit(FALSE, code)
    /\ files' \in {files, [f \in FileNames |-> NoFile]}
    /\ UNCHANGED <<now, budget, last>>

\* commands.Scan, lines 43-53: an unknown collection or a failed
\* network.Scan ends the process by os.Exit(1); no deferred function runs
ScanExit ==
    /\ cli.pc = "command"
    /\ cli.command = "scan"
    /\ Exit(FALSE, 1)
    /\ UNCHANGED <<files, now, budget, last>>

\* run(), lines 91-125: the command returns; run returns 1 for an unknown
\* command and 0 otherwise, and its deferred function starts
RunCommand ==
    /\ cli.pc = "command"
    /\ cli' = [cli EXCEPT !.pc = "deferred", !.code = IF cli.command = "unknown" THEN 1 ELSE 0]
    /\ UNCHANGED <<up, rootIndex, files, mu, g, now, budget, last, newRet>>

\* run(), lines 85-89: the deferred function calls c.Close()
RunDeferred ==
    /\ cli.pc = "deferred"
    /\ \/ CallClose("g1") \/ Lock("g1")
       \/ SaveCreate("g1") \/ SaveEncode("g1") \/ SaveRename("g1")

\* c.Close() has returned, its error is logged, and the process exits with
\* the status run returned
RunExit ==
    /\ cli.pc = "deferred"
    /\ g["g1"].pc = "ret" /\ g["g1"].op = "Close"
    /\ Exit(TRUE, cli.code)
    /\ UNCHANGED <<files, now, budget, last>>

\* a command-line process started over any cache directory
InitCli ==
    /\ up = FALSE
    /\ rootIndex = NoEntries
    /\ files \in Directories
    /\ mu = NoLock
    /\ g = [p \in Goroutines |-> Idle]
    /\ now = 0
    /\ last = [k \in Keys |-> Dirty]
    /\ newRet = NoNewRet
    /\ cli = Cli("args", "", FALSE, FALSE, -1)
    /\ budget = [faults |-> 0, stops |-> 0, deletes |-> 0]

NextCli ==
    \/ RunArgs \/ RunConfig \/ RunNew \/ RunAfterNew \/ RunClear
    \/ ScanExit \/ RunCommand \/ RunDeferred \/ RunExit

SpecCli == InitCli /\ [][NextCli]_vars

\* ------------------------------------------------------------ properties
\* goroutine p's call has its result; the deferred unlock has not run yet
AtRet(p, op) == g[p].pc = "ret" /\ g[p].op = op

\* the errors of a failed fetch
FetchErrors == {"download failed", "status code", "read body"}

\* C1: after Set(k, v) has returned nil and no write to k was attempted
\* since, Get(k) returns (v, true, nil); v is compared as the value it
\* denotes (an empty slice comes back from gob as a nil slice).
C1_SetThenGet ==
    \A p \in Goroutines :
        (AtRet(p, "Get") /\ last[g[p].key].st = "Set")
            => /\ g[p].ret.err = "nil"
               /\ g[p].ret.found
               /\ SameValue(g[p].ret.value, last[g[p].key].val)

\* a Get has returned the int stored by the latest Set
C1_Witness ==
    \E p \in Goroutines :
        /\ AtRet(p, "Get") /\ last[g[p].key].st = "Set"
        /\ last[g[p].key].val = IntVal(1) /\ g[p].ret = Ret(IntVal(1), TRUE, "nil")

\* C2: after SetList(k, xs) has returned nil, GetList(k) returns (xs, nil),
\* the same elements in the same order; and when SetList(k, ys) returns nil
\* a GetList(k) returns exactly ys, whatever list k held before.
C2_SetListThenGetList ==
    \A p \in Goroutines :
        /\ (AtRet(p, "GetList") /\ last[g[p].key].st = "SetList")
              => /\ g[p].ret.err = "nil"
                 /\ g[p].ret.value.kind = "[]interface {}"
                 /\ g[p].ret.value.elems = last[g[p].key].val.elems
        /\ (AtRet(p, "SetList") /\ g[p].ret.err = "nil" /\ last[g[p].key].st = "SetList")
              => LET r == GetList(rootIndex, files, g[p].key)
                 IN  r.err = "nil" /\ r.value.elems = g[p].arg.elems

\* SetList(k, <<2, 1>>) has returned nil on a key that held another list
C2_Witness ==
    \E p \in Goroutines :
        /\ AtRet(p, "SetList") /\ g[p].ret.err = "nil" /\ last[g[p].key].st = "SetList"
        /\ g[p].over = "SetList" /\ g[p].arg.elems = <<2, 1>>

\* C3: when the latest write to k was a successful Set, GetList(k) returns
\* no items and an error that is neither nil nor ErrNotFound; when it was a
\* successful SetList or cache-miss GetWeb, Get(k) returns (nil, false, err)
\* with err non-nil. This holds of a call that has returned and of a call
\* that would be made on any such key of the open cache.
C3_TypeIsolation ==
    /\ \A p \in Goroutines :
          /\ (AtRet(p, "GetList") /\ last[g[p].key].st = "Set")
                => g[p].ret.value = NilSlice /\ g[p].ret.err \notin {"nil", "ErrNotFound"}
          /\ (AtRet(p, "Get") /\ last[g[p].key].st \in {"SetList", "GetWeb"})
                => g[p].ret.value = NilVal /\ ~g[p].ret.found /\ g[p].ret.err # "nil"
    /\ \A k \in Keys :
          /\ (up /\ last[k].st = "Set")
                => GetList(rootIndex, files, k).err \notin {"nil", "ErrNotFound"}
          /\ (up /\ last[k].st \in {"SetList", "GetWeb"})
                => Get(rootIndex, files, k).err # "nil"

\* a Get on a key last written by GetWeb has returned its error while the
\* other key holds a scalar
C3_Witness ==
    \E p \in Goroutines :
        /\ AtRet(p, "Get") /\ last[g[p].key].st = "GetWeb"
        /\ g[p].ret = Ret(NilVal, FALSE, "not a scalar entry")
        /\ \E k \in Keys : last[k].st = "Set"

\* C4: a Get of a key that is not in the index returns (nil, false, nil); a
\* GetList of such a key returns no items and ErrNotFound, never (nil, nil).
C4_Absence ==
    \A p \in Goroutines :
        /\ (AtRet(p, "Get") /\ g[p].key \notin DOMAIN rootIndex)
              => g[p].ret = Ret(NilVal, FALSE, "nil")
        /\ (AtRet(p, "GetList") /\ g[p].key \notin DOMAIN rootIndex)
              => g[p].ret = Ret(NilSlice, FALSE, "ErrNotFound")

\* a GetList of a key that is not in the index has returned, the index
\* holding the other key
C4_Witness ==
    \E p \in Goroutines :
        /\ AtRet(p, "GetList") /\ g[p].key \notin DOMAIN rootIndex
        /\ DOMAIN rootIndex # {}

\* C5: a GetWeb(url) that starts when the latest write to url was a
\* successful GetWeb issues no request and returns the bytes that call
\* stored; a GetWeb on a url the index never held, or no longer holds after
\* reconciliation, issues exactly one request; no call issues more than one.
C5_GetWebCached ==
    \A p \in Goroutines :
        AtRet(p, "GetWeb")
            => /\ g[p].reqs <= 1
               /\ (g[p].over = "GetWeb" /\ last[g[p].key].st = "GetWeb")
                     => /\ g[p].reqs = 0
                        /\ g[p].ret.err = "nil"
                        /\ g[p].ret.value.kind = "[]uint8"
                        /\ g[p].ret.value.elems = last[g[p].key].val.elems
               /\ (g[p].over \in {"none", "reconciled"}) => g[p].reqs = 1

\* a GetWeb has returned the cached body without a request
C5_Witness ==
    \E p \in Goroutines :
        /\ AtRet(p, "GetWeb") /\ g[p].over = "GetWeb" /\ last[g[p].key].st = "GetWeb"
        /\ g[p].reqs = 0 /\ g[p].ret.value = BytesVal(<<2>>)

\* a GetWeb that has returned the error of its fetch
C6_FailedFetch(p) == AtRet(p, "GetWeb") /\ g[p].ret.err \in FetchErrors

\* the part of a GetWeb call before it takes the exclusive lock
C6_BeforePersist(p) == g[p].op = "GetWeb" /\ g[p].pc \in {"RLock", "read", "fetch"}

\* C6: a GetWeb whose fetch fails returns no bytes and the error after one
\* request, the index then has no web entry for url (the next call fetches
\* again), and no step of the call up to and including the failed fetch
\* changes the index or any file.
C6_FailureNotCached ==
    /\ [](\A p \in Goroutines :
             C6_FailedFetch(p)
                 => /\ g[p].ret.value = NilBytes
                    /\ g[p].reqs = 1
                    /\ ~WebHit(rootIndex, g[p].key))
    /\ [][\A p \in Goroutines :
             (C6_BeforePersist(p) /\ g'[p] # g[p] /\ up')
                 => rootIndex' = rootIndex /\ files' = files]_vars

\* a GetWeb has returned the error of a non-200 status on a url not cached
C6_Witness ==
    \E p \in Goroutines :
        /\ C6_FailedFetch(p) /\ g[p].ret.err = "status code"
        /\ g[p].key \notin DOMAIN rootIndex
        /\ files[getFilePath(g[p].key)] = NoFile

\* C7: a key written by a successful Set or SetList, then a successful
\* Close, then New over the same directory: Get returns the value of the
\* Set, GetList the items of the SetList in their order.
C7_Persistence ==
    \A p \in Goroutines :
        /\ (AtRet(p, "Get") /\ last[g[p].key].phase = "reopened" /\ last[g[p].key].st = "Set")
              => /\ g[p].ret.err = "nil" /\ g[p].ret.found
                 /\ SameValue(g[p].ret.value, last[g[p].key].val)
        /\ (AtRet(p, "GetList") /\ last[g[p].key].phase = "reopened" /\ last[g[p].key].st = "SetList")
              => /\ g[p].ret.err = "nil"
                 /\ g[p].ret.value.elems = last[g[p].key].val.elems

\* a Get on the reconstructed cache has returned the value set before Close
C7_Witness ==
    \E p \in Goroutines :
        /\ AtRet(p, "Get") /\ last[g[p].key].phase = "reopened"
        /\ last[g[p].key].st = "Set" /\ g[p].ret = Ret(IntVal(2), TRUE, "nil")

\* the entries the index file holds
C8_Persisted == files[getRootIndexPath].entries

\* C8: a key whose backing file was deleted out-of-band is, once New has run
\* over the directory, not in the in-memory index: Get returns
\* (nil, false, nil) and GetList ErrNotFound. New never fails on the index
\* file (it is absent or decodes), it drops exactly the persisted keys whose
\* file is missing and keeps every other persisted key with its Metadata,
\* Type included.
C8_Reconciliation ==
    /\ [](/\ loadFromFile(files, getRootIndexPath, "RootIndex").err = "nil"
          /\ \A k \in Keys : (up /\ last[k].st = "reconciled") => k \notin DOMAIN rootIndex
          /\ \A p \in Goroutines :
                /\ (AtRet(p, "Get") /\ last[g[p].key].st = "reconciled")
                      => g[p].ret = Ret(NilVal, FALSE, "nil")
                /\ (AtRet(p, "GetList") /\ last[g[p].key].st = "reconciled")
                      => g[p].ret = Ret(NilSlice, FALSE, "ErrNotFound"))
    /\ [][(~up /\ up')
             => \A k \in DOMAIN C8_Persisted :
                   IF files[getFilePath(k)] = NoFile
                   THEN k \notin DOMAIN rootIndex'
                   ELSE k \in DOMAIN rootIndex' /\ rootIndex'[k] = C8_Persisted[k]]_vars

\* a Get on a reconciled key has returned while the index file still lists
\* the key and the index holds the other key
C8_Witness ==
    \E p \in Goroutines :
        /\ AtRet(p, "Get") /\ last[g[p].key].st = "reconciled"
        /\ g[p].key \in DOMAIN C8_Persisted
        /\ \E k \in Keys \ {g[p].key} : k \in DOMAIN rootIndex /\ last[k].st \in {"Set", "SetList", "GetWeb"}

\* C9: when Set(k1, v1) and Set(k2, v2) with k1 # k2 have both returned nil,
\* however their steps interleaved, both keys are scalar entries of the
\* in-memory index and entries of the index file, each backing file holds
\* the gob of its own key's wrapper, and Get returns v1 and v2.
C9_NoLostUpdate ==
    \A k1 \in Keys : \A k2 \in Keys \ {k1} :
        (last[k1].st = "Set" /\ last[k2].st = "Set")
            => /\ k1 \in DOMAIN rootIndex /\ rootIndex[k1].Type = "scalar"
               /\ files[getRootIndexPath].wtype = "RootIndex"
               /\ k1 \in DOMAIN C8_Persisted /\ C8_Persisted[k1].Type = "scalar"
               /\ files[getFilePath(k1)] = EncodeWrapper(last[k1].val)
               /\ Get(rootIndex, files, k1) = Ret(last[k1].val, TRUE, "nil")

\* two Set calls on distinct keys with distinct values, in flight at the
\* same time, have both returned nil
C9_Witness ==
    \E k1 \in Keys : \E k2 \in Keys \ {k1} :
        /\ last[k1].st = "Set" /\ last[k2].st = "Set"
        /\ last[k1].conc /\ last[k2].conc
        /\ last[k1].val # last[k2].val

\* C10: whatever Get returns, found = true comes with a nil error, and a
\* non-nil error comes with a nil value and found = false.
C10_GetOutcomes ==
    \A p \in Goroutines :
        AtRet(p, "Get")
            => /\ g[p].ret.found => g[p].ret.err = "nil"
               /\ g[p].ret.err # "nil" => (g[p].ret.value = NilVal /\ ~g[p].ret.found)

\* a Get has returned a decode error: the index says scalar, the file holds
\* the gob of another type
C10_Witness ==
    \E p \in Goroutines :
        /\ AtRet(p, "Get") /\ g[p].ret = Ret(NilVal, FALSE, "decode")
        /\ files[getFilePath(g[p].key)].wtype # "map[string]interface {}"

\* a complete gob stream, as one Encode call writes it
C11_Complete(c) == c.wtype \in {"map[string]interface {}", "[]interface {}", "[]uint8", "RootIndex"}

\* C11: at every instant, also when the process has stopped in the middle
\* of a write, every backing file and the index file is absent or holds a
\* complete stream; and a step changes such a file only by renaming the
\* complete new stream of the writing call into place (or the file is
\* deleted out-of-band).
C11_AtomicReplace ==
    /\ [](\A f \in TargetNames : files[f] = NoFile \/ C11_Complete(files[f]))
    /\ [][\A f \in TargetNames :
             files'[f] # files[f]
                 => \/ files'[f] = NoFile
                    \/ \E p \in Goroutines :
                          /\ g[p].pc = "Rename" /\ TargetPath(p) = f
                          /\ files'[f] = DataEncoded(p)]_vars

\* the process has stopped between creating a temp file and writing it,
\* the file at the final path holding the previous content
C11_Witness ==
    /\ ~up
    /\ \E k \in Keys :
          /\ files[TmpPath(getFilePath(k))] = EmptyFile
          /\ C11_Complete(files[getFilePath(k)])

\* C12: when Set(k, v) has returned nil, whatever k held before (a list or
\* a web entry in particular), k is tagged scalar in the index, Get(k)
\* returns (v, true, nil) and GetList(k) returns the type-mismatch error.
C12_SetOverwritesTag ==
    \A p \in Goroutines :
        (AtRet(p, "Set") /\ g[p].ret.err = "nil" /\ last[g[p].key].st = "Set")
            => /\ g[p].key \in DOMAIN rootIndex
               /\ rootIndex[g[p].key].Type = "scalar"
               /\ Get(rootIndex, files, g[p].key) = Ret(g[p].arg, TRUE, "nil")
               /\ GetList(rootIndex, files, g[p].key) = Ret(NilSlice, FALSE, "not a list entry")

\* Set has returned nil on a key that held a web entry, the other key
\* holding a list
C12_Witness ==
    \E p \in Goroutines :
        /\ AtRet(p, "Set") /\ g[p].ret.err = "nil" /\ last[g[p].key].st = "Set"
        /\ g[p].over = "GetWeb"
        /\ \E k \in Keys : last[k].st = "SetList"

\* C13 (the claim as stated; the code does not satisfy it): a GetWeb(url) on
\* a key that a successful Set or SetList has tagged scalar or list returns
\* an error and leaves the tag and the backing file of the key as they were.
C13_GetWebMismatchSurfaced ==
    \A p \in Goroutines :
        (AtRet(p, "GetWeb") /\ g[p].over \in {"Set", "SetList"})
            => /\ g[p].ret.err # "nil"
               /\ g[p].key \in DOMAIN rootIndex
               /\ rootIndex[g[p].key].Type = TypeOf(g[p].over)
               /\ files[getFilePath(g[p].key)].wtype # "[]uint8"

\* GetWeb has returned (body, nil) on a key that held a scalar: the key is
\* now tagged web and its backing file holds the body
C13_Witness ==
    \E p \in Goroutines :
        /\ AtRet(p, "GetWeb") /\ g[p].over = "Set"
        /\ g[p].ret = Ret(BytesVal(<<1>>), FALSE, "nil") /\ g[p].reqs = 1
        /\ rootIndex[g[p].key].Type = "web"
        /\ files[getFilePath(g[p].key)] = EncodeBytes(BytesVal(<<1>>))

\* C14 (the claim as stated; the code does not satisfy it): every indexed
\* key has CreatedAt <= UpdatedAt, the write of an entry sets UpdatedAt to
\* the time of the write, and the write of an entry for a key that is
\* already indexed leaves the CreatedAt of that key as it was.
C14_Timestamps ==
    /\ [](\A k \in DOMAIN rootIndex : rootIndex[k].CreatedAt <= rootIndex[k].UpdatedAt)
    /\ [][\A p \in Goroutines :
             (g[p].pc = "SetIndex" /\ g'[p].pc # "SetIndex" /\ up')
                 => /\ rootIndex'[g[p].key].UpdatedAt = now
                    /\ g[p].key \in DOMAIN rootIndex
                          => rootIndex'[g[p].key].CreatedAt = rootIndex[g[p].key].CreatedAt]_vars

\* a write is about to save the index in which the key it overwrote has
\* CreatedAt 1, the index file still holding the key with CreatedAt 0
C14_Witness ==
    \E p \in Goroutines :
        /\ IsWrite(g[p].op) /\ g[p].phase = "index" /\ g[p].pc = "Rename"
        /\ g[p].key \in DOMAIN C8_Persisted /\ C8_Persisted[g[p].key].CreatedAt = 0
        /\ rootIndex[g[p].key].CreatedAt = 1

\* C15: when Close has returned nil the index file decodes to exactly the
\* in-memory index, keys removed by reconciliation included; and no step of
\* a Close call changes the in-memory index or a backing file.
C15_CloseFlushes ==
    /\ [](\A p \in Goroutines :
             (AtRet(p, "Close") /\ g[p].ret.err = "nil")
                 => LET l == loadFromFile(files, getRootIndexPath, "RootIndex")
                    IN  l.err = "nil" /\ l.loaded /\ l.c.entries = rootIndex)
    /\ [][\A p \in Goroutines :
             (g[p].op = "Close" /\ g'[p] # g[p] /\ up')
                 => /\ rootIndex' = rootIndex
                    /\ \A k \in Keys : files'[getFilePath(k)] = files[getFilePath(k)]]_vars

\* Close has returned nil after a reconciliation: the reconciled key is no
\* longer in the index file, the other key is
C15_Witness ==
    \E p \in Goroutines :
        /\ AtRet(p, "Close") /\ g[p].ret.err = "nil"
        /\ \E k \in Keys : last[k].st = "reconciled" /\ k \notin DOMAIN C8_Persisted
        /\ DOMAIN C8_Persisted # {}

\* the gob stream a successful write of history h has stored
C16_Stored(h) ==
    IF h.st = "Set" THEN EncodeWrapper(h.val)
    ELSE IF h.st = "SetList" THEN EncodeList(h.val)
    ELSE EncodeBytes(h.val)

\* C16: once a Set, SetList or cache-miss GetWeb has returned nil (and no
\* later write or deletion touched the key), the backing file holds what it
\* wrote and the index file lists the key with its tag, Close or not; and a
\* cache constructed by New after the process stopped without Close returns
\* the value: from Get, from GetList, and from GetWeb without a request.
C16_WriteThrough ==
    /\ \A k \in Keys :
          last[k].st \in {"Set", "SetList", "GetWeb"}
              => /\ files[getFilePath(k)] = C16_Stored(last[k])
                 /\ k \in DOMAIN C8_Persisted
                 /\ C8_Persisted[k].Type = TypeOf(last[k].st)
    /\ \A p \in Goroutines :
          (g[p].pc = "ret" /\ g[p].key \in Keys /\ last[g[p].key].phase = "crashed")
              => /\ (g[p].op = "Get" /\ last[g[p].key].st = "Set")
                       => g[p].ret = Ret(last[g[p].key].val, TRUE, "nil")
                 /\ (g[p].op = "GetList" /\ last[g[p].key].st = "SetList")
                       => g[p].ret.err = "nil" /\ g[p].ret.value.elems = last[g[p].key].val.elems
                 /\ (g[p].op = "GetWeb" /\ g[p].over = "GetWeb" /\ last[g[p].key].st = "GetWeb")
                       => /\ g[p].ret.err = "nil" /\ g[p].reqs = 0
                          /\ g[p].ret.value.elems = last[g[p].key].val.elems

\* after a stop without Close and a New, GetList has returned the list
\* written before the stop
C16_Witness ==
    \E p \in Goroutines :
        /\ AtRet(p, "GetList") /\ last[g[p].key].phase = "crashed"
        /\ last[g[p].key].st = "SetList"
        /\ g[p].ret.err = "nil" /\ g[p].ret.value.elems = <<1, 2>>

\* C17: New over a usable directory with no index file returns a cache with
\* an empty index and no error; with an index file that does not decode it
\* returns an error and no cache; otherwise it returns a cache.  New never
\* returns a cache together with an error, and there is a cache exactly
\* when New has returned one.
C17_IndexLoading ==
    /\ [](/\ newRet.cache => newRet.err = "nil"
          /\ newRet.cache <=> up)
    /\ [][(newRet' # newRet /\ newRet'.dir = "/cache")
             => IF files[getRootIndexPath] = NoFile
                THEN newRet'.cache /\ newRet'.err = "nil" /\ up' /\ rootIndex' = NoEntries
                ELSE IF ~Decodable(files[getRootIndexPath], "RootIndex")
                THEN ~newRet'.cache /\ newRet'.err # "nil" /\ ~up'
                ELSE newRet'.cache /\ newRet'.err = "nil" /\ up']_vars

\* New has returned an error and no cache on a directory whose index file
\* holds the gob of another type
C17_Witness ==
    /\ ~up
    /\ newRet = NewRet("/cache", FALSE, "failed to load root index")
    /\ files[getRootIndexPath] = EncodeList(SliceVal(<<1, 2>>))

\* C18: no step of a Set, SetList, GetWeb, Get, GetList or Close call on a
\* constructed cache (nor an out-of-band deletion of a file) removes a key
\* from the in-memory index.
C18_NoDeletion ==
    [][(up /\ up') => DOMAIN rootIndex \subseteq DOMAIN rootIndex']_vars

\* a SetList has overwritten a scalar entry while the index holds both keys
C18_Witness ==
    \E p \in Goroutines :
        /\ AtRet(p, "SetList") /\ g[p].ret.err = "nil" /\ g[p].over = "Set"
        /\ DOMAIN rootIndex = Keys
        /\ rootIndex[g[p].key].Type = "list"

\* what callers can observe of the cache, timestamps aside: the keys of the
\* index, their tags, and what Get and GetList return for every key
C19_Observable ==
    [keys    |-> DOMAIN rootIndex,
     tags    |-> [k \in DOMAIN rootIndex |-> rootIndex[k].Type],
     get     |-> [k \in Keys |-> Get(rootIndex, files, k)],
     getList |-> [k \in Keys |-> GetList(rootIndex, files, k)]]

\* C19: a Set(k, v) that follows a successful Set(k, v), or a SetList(k, xs)
\* that follows a successful SetList(k, xs), returns nil, and none of its
\* steps changes what callers can observe: the state after the second call
\* is the state after the first, timestamps aside.
C19_IdempotentRetry ==
    /\ [](\A p \in Goroutines :
             (g[p].pc = "ret" /\ g[p].op \in {"Set", "SetList"} /\ g[p].over = "same")
                 => g[p].ret.err = "nil")
    /\ [][\A p \in Goroutines :
             (g[p].op \in {"Set", "SetList"} /\ g[p].over = "same" /\ g'[p] # g[p])
                 => C19_Observable' = C19_Observable]_vars

\* the second SetList(k, <<2, 1>>) in a row has returned nil, the other key
\* being indexed too
C19_Witness ==
    \E p \in Goroutines :
        /\ AtRet(p, "SetList") /\ g[p].over = "same" /\ g[p].ret.err = "nil"
        /\ g[p].arg.elems = <<2, 1>>
        /\ DOMAIN rootIndex = Keys

\* C20: New("") and New on a path that is a regular file return an error
\* and no cache, and leave the directory and the index alone: nothing is
\* loaded and no file is scanned away.
C20_UnusableDir ==
    [][(newRet' # newRet /\ newRet'.dir \in {"", "/a/file"})
          => /\ ~newRet'.cache /\ newRet'.err # "nil"
             /\ ~up'
             /\ rootIndex' = rootIndex
             /\ files' = files]_vars

\* New("") has returned its error over a directory whose index file decodes
\* and which holds a stray temp file: New("/cache") would have succeeded
\* and removed it
C20_Witness ==
    /\ ~up
    /\ newRet = NewRet("", FALSE, "cache directory cannot be empty")
    /\ loadFromFile(files, getRootIndexPath, "RootIndex").loaded
    /\ files[TmpPath(getFilePath("k2"))] = EmptyFile


\* C21: with no out-of-band deletion, at every point where the process can
\* stop, every key the index file names has a backing file, and that file
\* holds a gob stream of the type the index file declares for the key.
C21_CrashConsistent ==
    budget.deletes = MaxDeletes
        => \A k \in DOMAIN C8_Persisted :
               /\ files[getFilePath(k)] # NoFile
               /\ Decodable(files[getFilePath(k)],
                            IF C8_Persisted[k].Type = "scalar" THEN "map[string]interface {}"
                            ELSE IF C8_Persisted[k].Type = "list" THEN "[]interface {}"
                            ELSE "[]uint8")

\* the process stopped between the rename of a backing file and the index
\* save of a write over an entry of another type, and the next process
\* reads the key under the type the index file declares
C21_Witness ==
    \E p \in Goroutines :
        /\ budget.deletes = MaxDeletes /\ budget.stops < MaxStops
        /\ AtRet(p, "GetList") /\ g[p].ret.err = "decode"
        /\ C8_Persisted[g[p].key].Type = "list"
        /\ files[getFilePath(g[p].key)] = EncodeWrapper(IntVal(1))


\* the gob type a backing file of an entry tagged t has to hold
C22_Shape(t) ==
    IF t = "scalar" THEN "map[string]interface {}"
    ELSE IF t = "list" THEN "[]interface {}"
    ELSE "[]uint8"

\* C22: on a constructed cache with no out-of-band deletion, whenever no
\* write is in progress, every key of the in-memory index has a backing
\* file and that file holds a gob stream of the shape of the key's tag.
C22_RootIndexInvariant ==
    (up /\ budget.deletes = MaxDeletes /\ mu.writer = "none")
        => \A k \in DOMAIN rootIndex :
               /\ files[getFilePath(k)] # NoFile
               /\ Decodable(files[getFilePath(k)], C22_Shape(rootIndex[k].Type))

\* New has returned a cache whose index tags k as a scalar over a backing
\* file holding a list, with nothing deleted out-of-band and no call made
C22_Witness ==
    /\ up /\ budget.deletes = MaxDeletes /\ mu = NoLock
    /\ \A p \in Goroutines : g[p] = Idle
    /\ newRet.cache /\ newRet.log = NoLog
    /\ \E k \in DOMAIN rootIndex :
           /\ rootIndex[k].Type = "scalar"
           /\ files[getFilePath(k)] = EncodeList(SliceVal(<<1, 2>>))


\* C23: a GetWeb call holds the shared lock for the hit check only; from
\* the miss until the response body is read it holds no lock, the request
\* is made in that span, and the exclusive lock is held from then on while
\* the result is persisted.
C23_NoLockWhileFetching ==
    /\ [](\A p \in Goroutines :
            g[p].op = "GetWeb"
                => /\ g[p].pc = "read" => (p \in mu.readers /\ mu.writer # p)
                   /\ g[p].pc \in {"RLock", "fetch", "Lock"} => (p \notin mu.readers /\ mu.writer # p)
                   /\ g[p].pc = "fetch" => g[p].reqs = 0
                   /\ g[p].pc \in {"Create", "Encode", "Rename", "Stamp", "SetIndex"}
                          => (mu.writer = p /\ g[p].reqs = 1))
    /\ [][\A p \in Goroutines :
            g'[p].reqs > g[p].reqs
                => /\ p \notin mu.readers /\ mu.writer # p
                   /\ p \notin mu'.readers /\ mu'.writer # p]_vars

\* while one goroutine's fetch is in flight, another one's Set has taken the
\* exclusive lock and has returned nil
C23_Witness ==
    \E p \in Goroutines, q \in Goroutines :
        /\ g[p].op = "GetWeb" /\ g[p].pc = "fetch"
        /\ AtRet(q, "Set") /\ g[q].ret.err = "nil" /\ mu.writer = q


\* C24: every step that changes the in-memory index or a file of the
\* directory is taken by the one goroutine holding the exclusive lock, which
\* it holds from its first write to its return while no goroutine holds the
\* shared lock; Get, GetList and a GetWeb hit hold the shared lock only.
C24_ExclusiveWrites ==
    /\ [](/\ mu.writer # "none" => mu.readers = {}
          /\ \A p \in Goroutines :
                /\ g[p].pc \in {"Create", "Encode", "Rename", "Stamp", "SetIndex"} => mu.writer = p
                /\ (g[p].pc = "ret" /\ g[p].op \in {"Set", "SetList", "Close"}) => mu.writer = p
                /\ (g[p].pc = "ret" /\ g[p].op = "GetWeb" /\ g[p].reqs = 1 /\ g[p].ret.err \notin FetchErrors)
                       => mu.writer = p
                /\ (g[p].pc \in {"read", "ret"} /\ g[p].op \in {"Get", "GetList"})
                       => (p \in mu.readers /\ mu.writer = "none")
                /\ (g[p].pc = "ret" /\ g[p].op = "GetWeb" /\ g[p].reqs = 0)
                       => (p \in mu.readers /\ mu.writer = "none"))
    /\ [][(rootIndex' # rootIndex \/ files' # files)
            => \E p \in Goroutines :
                  /\ mu.writer = p /\ mu.readers = {} /\ mu' = mu
                  /\ g[p].op \in {"Set", "SetList", "GetWeb", "Close"}
                  /\ g'[p] # g[p]
                  /\ \A q \in Goroutines \ {p} : g'[q] = g[q]]_vars

\* a Set holds the exclusive lock with its backing file written and its
\* index entry not yet assigned, while the other goroutine's read of the
\* same key waits for the shared lock
C24_Witness ==
    \E p \in Goroutines, q \in Goroutines :
        /\ g[p].op = "Set" /\ g[p].pc = "SetIndex" /\ g[p].phase = "entry" /\ mu.writer = p
        /\ g[q].op \in {"Get", "GetList", "GetWeb"} /\ g[q].pc = "RLock" /\ g[q].key = g[p].key


\* C25: a read that runs while writes to its key are in flight reads the
\* tag and the backing file of one state in which no write is in progress:
\* the tag it is about to read fits the file, its result is the one the
\* index and the file give until it returns, and it is never a decode error.
C25_AtomicReads ==
    \A p \in Goroutines :
        /\ (g[p].pc = "read" /\ g[p].key \in DOMAIN rootIndex)
               => Decodable(files[getFilePath(g[p].key)], C22_Shape(rootIndex[g[p].key].Type))
        /\ AtRet(p, "Get")
               => (g[p].ret = Get(rootIndex, files, g[p].key) /\ g[p].ret.err # "decode")
        /\ AtRet(p, "GetList")
               => (g[p].ret = GetList(rootIndex, files, g[p].key) /\ g[p].ret.err # "decode")
        /\ (AtRet(p, "GetWeb") /\ g[p].reqs = 0)
               => /\ WebHit(rootIndex, g[p].key)
                  /\ g[p].ret = GetWebCached(files, g[p].key)
                  /\ g[p].ret.err # "decode"

\* a Get has read the scalar stored under a key while the other goroutine's
\* SetList of the same key waits for the exclusive lock
C25_Witness ==
    \E p \in Goroutines, q \in Goroutines :
        /\ AtRet(p, "Get") /\ g[p].ret.found /\ g[p].ret.err = "nil"
        /\ g[q].op = "SetList" /\ g[q].pc = "Lock" /\ g[q].key = g[p].key


\* C26: however GetWeb calls on one url interleave, a call that fetched and
\* persisted returns the body it fetched itself, and at its return the url
\* is a web entry of the index in memory and on disk whose backing file
\* holds exactly that body; once such a call has returned, the backing
\* file holds the body of the latest of them, and a GetWeb started from
\* then on makes no request and returns the stored body.
C26_ConcurrentMisses ==
    /\ \A p \in Goroutines :
          (AtRet(p, "GetWeb") /\ g[p].reqs = 1 /\ g[p].ret.err = "nil")
              => /\ g[p].ret.value = g[p].arg
                 /\ g[p].arg \in ConcInputs.bodies
                 /\ WebHit(rootIndex, g[p].key) /\ WebHit(C8_Persisted, g[p].key)
                 /\ files[getFilePath(g[p].key)] = EncodeBytes(g[p].arg)
    /\ \A k \in Keys :
          last[k].st = "GetWeb"
              => /\ WebHit(rootIndex, k) /\ WebHit(C8_Persisted, k)
                 /\ files[getFilePath(k)] = EncodeBytes(last[k].val)
    /\ \A p \in Goroutines :
          (g[p].op = "GetWeb" /\ g[p].over = "GetWeb")
              => /\ g[p].pc \in {"read", "ret"} /\ g[p].reqs = 0
                 /\ g[p].pc = "ret" => (g[p].ret.err = "nil" /\ g[p].ret.value \in ConcInputs.bodies)

\* two GetWeb calls on one url both missed and fetched different bodies: one
\* has persisted its body and is about to return it, the other one waits
\* for the exclusive lock to persist its own
C26_Witness ==
    \E p \in Goroutines, q \in Goroutines :
        /\ AtRet(p, "GetWeb") /\ g[p].reqs = 1 /\ g[p].ret.err = "nil"
        /\ g[q].op = "GetWeb" /\ g[q].pc = "Lock" /\ g[q].reqs = 1
        /\ g[q].key = g[p].key /\ g[q].arg # g[p].arg


\* C27: New leaves the index file as it found it, so the keys it dropped
\* from the in-memory index are still listed on disk when it returns; the
\* index file changes only by the rename that ends an index save of Set,
\* SetList, GetWeb or Close, which stores the in-memory index as it is then
\* and so no longer lists a dropped key that was not written again.
C27_RepairInMemoryOnly ==
    /\ [][(~up /\ up')
            => /\ files'[getRootIndexPath] = files[getRootIndexPath]
               /\ \A k \in newRet'.log.dangling :
                     k \in DOMAIN C8_Persisted' /\ k \notin DOMAIN rootIndex']_vars
    /\ [][files'[getRootIndexPath] # files[getRootIndexPath]
            => /\ up /\ up'
               /\ \E p \in Goroutines :
                     /\ g[p].pc = "Rename" /\ g[p].phase = "index"
                     /\ g[p].op \in {"Set", "SetList", "GetWeb", "Close"}
               /\ files'[getRootIndexPath] = EncodeIndex(rootIndex)
               /\ \A k \in newRet.log.dangling :
                     k \notin DOMAIN rootIndex => k \notin DOMAIN C8_Persisted']_vars

\* New dropped a key whose backing file was gone, and a later Set of the
\* other key has saved the index: the index file no longer lists the
\* dropped key
C27_Witness ==
    \E p \in Goroutines :
        /\ AtRet(p, "Set") /\ g[p].ret.err = "nil"
        /\ \E k \in newRet.log.dangling :
              k # g[p].key /\ k \notin DOMAIN rootIndex /\ k \notin DOMAIN C8_Persisted


\* C28: when New returns a cache, no temp file is left in the directory,
\* the temp files that were there are the ones New removed, and the index
\* file and every backing file are as they were before New.
C28_TempFilesRemoved ==
    [][(~up /\ up')
         => /\ \A f \in TmpNames : files'[f] = NoFile
            /\ \A f \in TargetNames : files'[f] = files[f]
            /\ newRet'.log.removed = {f \in TmpNames : files[f] # NoFile}]_vars

\* New has returned a cache after removing the temp file of an index save
\* that was interrupted; the index file and a backing file are in place
C28_Witness ==
    /\ up /\ newRet.cache
    /\ TmpPath(getRootIndexPath) \in newRet.log.removed
    /\ \A f \in TmpNames : files[f] = NoFile
    /\ files[getRootIndexPath] # NoFile
    /\ \E k \in Keys : files[getFilePath(k)] # NoFile
    /\ \A p \in Goroutines : g[p] = Idle


\* C29: when New is given a usable directory whose index file is absent or
\* decodable it returns a cache, whatever backing files the index does not
\* list are there; each such file is logged as orphaned, is left as it is,
\* and its key is not in the index New returns.
C29_OrphansTolerated ==
    /\ [][(newRet' # newRet /\ newRet'.dir = "/cache"
             /\ files[getRootIndexPath].wtype \in {"absent", "RootIndex"})
            => (up' /\ newRet'.cache /\ newRet'.err = "nil")]_vars
    /\ [][(~up /\ up')
            => \A k \in Keys :
                  (files[getFilePath(k)] # NoFile /\ k \notin DOMAIN C8_Persisted)
                      => /\ files'[getFilePath(k)] = files[getFilePath(k)]
                         /\ k \notin DOMAIN rootIndex'
                         /\ getFilePath(k) \in newRet'.log.orphans]_vars

\* New logged a backing file as orphaned; a Get of its key has missed and
\* the file is still there with its content
C29_Witness ==
    \E p \in Goroutines :
        /\ AtRet(p, "Get") /\ ~g[p].ret.found /\ g[p].ret.err = "nil"
        /\ getFilePath(g[p].key) \in newRet.log.orphans
        /\ g[p].key \notin DOMAIN rootIndex
        /\ files[getFilePath(g[p].key)] = EncodeWrapper(IntVal(1))


\* C30: a GetList of a list key whose backing file was deleted before the
\* read started does not return the result a GetList of a stored empty
\* list returns, and a GetWeb hit on a web key whose backing file was
\* deleted does not return the result a GetWeb hit on a stored empty body
\* returns.
C30_AbsentDistinguished ==
    \A p \in Goroutines, q \in Goroutines :
        /\ (/\ AtRet(p, "GetList") /\ g[p].over = "deleted"
            /\ g[p].key \in DOMAIN rootIndex
            /\ rootIndex[g[p].key].Type = "list"
            /\ files[getFilePath(g[p].key)] = NoFile
            /\ AtRet(q, "GetList") /\ g[q].over = "SetList"
            /\ files[getFilePath(g[q].key)] = EncodeList(SliceVal(<<>>)))
               => g[p].ret # g[q].ret
        /\ (/\ AtRet(p, "GetWeb") /\ g[p].reqs = 0 /\ g[p].over = "deleted"
            /\ WebHit(rootIndex, g[p].key)
            /\ files[getFilePath(g[p].key)] = NoFile
            /\ AtRet(q, "GetWeb") /\ g[q].reqs = 0 /\ g[q].over = "GetWeb"
            /\ files[getFilePath(g[q].key)] = EncodeBytes(BytesVal(<<>>)))
               => g[p].ret # g[q].ret

\* a GetWeb hit on a url whose backing file was deleted and a GetWeb hit on
\* a url holding a stored empty body have both returned (nil, nil)
C30_Witness ==
    \E p \in Goroutines, q \in Goroutines :
        /\ AtRet(p, "GetWeb") /\ g[p].reqs = 0 /\ g[p].over = "deleted"
        /\ WebHit(rootIndex, g[p].key) /\ files[getFilePath(g[p].key)] = NoFile
        /\ AtRet(q, "GetWeb") /\ g[q].reqs = 0 /\ g[q].over = "GetWeb"
        /\ files[getFilePath(g[q].key)] = EncodeBytes(BytesVal(<<>>))
        /\ g[p].ret = Ret(NilBytes, FALSE, "nil") /\ g[q].ret = Ret(NilBytes, FALSE, "nil")


\* the errors saveToFile returns
C31_SaveErrors == {"create temp file", "encode", "rename"}

C32_FailedMutationInvisible ==
    \A p \in Goroutines :
        (g[p].pc = "ret" /\ g[p].op \in {"Set", "SetList", "GetWeb"}
           /\ g[p].ret.err \notin {"none", "nil"})
            => /\ g[p].over = "none"
                   => (g[p].key \notin DOMAIN rootIndex /\ files[getFilePath(g[p].key)] = NoFile)
               /\ g[p].over \in {"Set", "SetList", "GetWeb"}
                   => /\ g[p].key \in DOMAIN rootIndex
                      /\ rootIndex[g[p].key].Type = TypeOf(g[p].over)
                      /\ Decodable(files[getFilePath(g[p].key)], C22_Shape(TypeOf(g[p].over)))

\* a Set of a key that had no entry has returned the error of its index
\* save: the key is in the in-memory index and its backing file holds the
\* new value, while the index file does not list it
C32_Witness ==
    \E p \in Goroutines :
        /\ AtRet(p, "Set") /\ g[p].ret.err \in C31_SaveErrors /\ g[p].phase = "index"
        /\ g[p].over = "none"
        /\ g[p].key \in DOMAIN rootIndex /\ g[p].key \notin DOMAIN C8_Persisted
        /\ files[getFilePath(g[p].key)] = EncodeWrapper(g[p].arg)


\* C33: whenever GetWeb returns an error, the bytes it returns are nil.
C33_BytesOrError ==
    \A p \in Goroutines :
        (AtRet(p, "GetWeb") /\ g[p].ret.err # "nil") => g[p].ret.value = NilBytes

\* a GetWeb has fetched a body and written the backing file, its index
\* save has failed, and it has returned the body together with the error
C33_Witness ==
    \E p \in Goroutines :
        /\ AtRet(p, "GetWeb") /\ g[p].reqs = 1 /\ g[p].phase = "index"
        /\ g[p].ret.err \in C31_SaveErrors
        /\ g[p].ret.value = BytesVal(<<1>>)
        /\ files[getFilePath(g[p].key)] = EncodeBytes(BytesVal(<<1>>))


\* what the reads of key k give over index entries and directory fs
C34_Reads(entries, fs, k) ==
    <<Get(entries, fs, k), GetList(entries, fs, k), WebHit(entries, k),
      IF WebHit(entries, k) THEN GetWebCached(fs, k) ELSE NoRet>>

\* C34: distinct keys have distinct backing files, and every step of a Set,
\* SetList or GetWeb on key k changes no file but k's backing file, the
\* index file and their temp files, and leaves, for every other key, the
\* index entry, the backing file and the results of Get, GetList and a
\* GetWeb hit as they were.
C34_PerKeyIsolation ==
    /\ [](\A k1 \in Keys, k2 \in Keys : k1 # k2 => getFilePath(k1) # getFilePath(k2))
    /\ [][\A p \in Goroutines :
            (up /\ up' /\ g'[p] # g[p] /\ g[p].op \in {"Set", "SetList", "GetWeb"})
                => /\ \A f \in FileNames :
                         files'[f] # files[f]
                             => f \in {getFilePath(g[p].key), TmpPath(getFilePath(g[p].key)),
                                       getRootIndexPath, TmpPath(getRootIndexPath)}
                   /\ \A k2 \in Keys \ {g[p].key} :
                         /\ (k2 \in DOMAIN rootIndex') = (k2 \in DOMAIN rootIndex)
                         /\ k2 \in DOMAIN rootIndex => rootIndex'[k2] = rootIndex[k2]
                         /\ files'[getFilePath(k2)] = files[getFilePath(k2)]
                         /\ C34_Reads(rootIndex', files', k2) = C34_Reads(rootIndex, files, k2)]_vars

\* a Set of one key has returned nil in a process constructed after a stop,
\* and the list the earlier process stored under the other key is read
\* from the same backing file as before
C34_Witness ==
    \E p \in Goroutines :
        /\ AtRet(p, "Set") /\ g[p].ret.err = "nil" /\ budget.stops < MaxStops
        /\ \E k2 \in Keys \ {g[p].key} :
              /\ last[k2].st = "SetList" /\ last[k2].phase \in {"crashed", "reopened"}
              /\ files[getFilePath(k2)] = EncodeList(last[k2].val)
              /\ GetList(rootIndex, files, k2) = Ret(SliceVal(<<1, 2>>), FALSE, "nil")


\* C35: a goroutine that is in no call holds the lock in no mode; whenever
\* a call has started, some started call can take a step; and every
\* started call eventually returns.
C35_Progress ==
    /\ [](/\ \A p \in Goroutines :
                g[p].pc \in {"idle", "Lock", "RLock", "fetch"} => (p \notin mu.readers /\ mu.writer # p)
          /\ (\E p \in Goroutines : g[p].pc # "idle")
                => \E p \in Goroutines :
                      /\ g[p].pc # "idle"
                      /\ g[p].pc = "Lock" => (mu.writer = "none" /\ mu.readers = {})
                      /\ g[p].pc = "RLock" => mu.writer = "none")
    /\ \A p \in Goroutines : (g[p].pc # "idle") ~> (g[p].pc = "idle")

\* a Set is about to return the error of a failed save, still holding the
\* exclusive lock the other goroutine's call waits for
C35_Witness ==
    \E p \in Goroutines, q \in Goroutines :
        /\ AtRet(p, "Set") /\ g[p].ret.err \in C31_SaveErrors /\ mu.writer = p
        /\ g[q].pc \in {"Lock", "RLock"}


\* C36: whenever the process has exited after cache.New returned a cache
\* for a command other than "clear", c.Close() has returned in it.
C36_CloseBeforeExit ==
    (cli.pc = "exited" /\ cli.cache /\ cli.command # "clear") => cli.closed

\* the scan command has ended the process with status 1 after cache.New
\* returned a cache, and c.Close() was not called
C36_Witness ==
    /\ cli.pc = "exited" /\ cli.cache /\ cli.command = "scan"
    /\ ~cli.closed /\ cli.code = 1

====
